---- MODULE Spec2Model ----
(***************************************************************************)
(* Fiber opportunity scoring model (scripts/build_scoring_model.py).       *)
(*                                                                         *)
(* Numbers.  A numeric cell of a table is the empty tuple (NaN, a missing  *)
(* value) or a pair <<n, d>>, d > 0, the rational n/d.  A 0-100 score is   *)
(* kept exactly, as an integer number of units:                            *)
(*   percentile scores and sub-score components   1/(4N)                   *)
(*   the four sub-scores                          1/(400N)                 *)
(*   the composite opportunity score              1/(40000N)               *)
(* where N is the number of rows of the scored table.  Weights are whole   *)
(* hundredths.  Floating-point rounding is not modelled.                   *)
(***************************************************************************)
EXTENDS Integers, Sequences, FiniteSets, TLC

VARIABLES
    pc,             \* position of main()
    acs,            \* acs_2024_tracts_6states.csv as read
    fcc,            \* fcc_bdc_tracts_6states.csv as read
    rucc,           \* rucc_2023_6states.csv as read
    df,             \* the tract table main() carries through the stages
    county_scores,  \* the county rollup
    tract_file,     \* tract_scores.csv on disk: <<>> (absent) or <<table>>
    county_file,    \* county_scores.csv on disk: <<>> (absent) or <<table>>
    series,         \* percentile_score: the column passed in
    score_asc,      \* percentile_score(series, ascending=True)
    score_desc,     \* percentile_score(series, ascending=False)
    ppc,            \* position of the percentile_score run
    cut_x,          \* the tier binning: the composite score passed in
    cut_label,      \* the tier binning: the label returned
    cpc,            \* position of the tier binning run
    feas_table,     \* score_build_feasibility: the table passed in
    feas_s1,        \* score_build_feasibility: its rurality component s1
    feas_s2,        \* score_build_feasibility: its density component s2
    feas_score,     \* score_build_feasibility: the score returned
    fpc             \* position of the score_build_feasibility run

mainVars == <<pc, acs, fcc, rucc, df, county_scores, tract_file, county_file>>
pctVars == <<series, score_asc, score_desc, ppc>>
cutVars == <<cut_x, cut_label, cpc>>
feasVars == <<feas_table, feas_s1, feas_s2, feas_score, fpc>>
vars == <<pc, acs, fcc, rucc, df, county_scores, tract_file, county_file,
          series, score_asc, score_desc, ppc, cut_x, cut_label, cpc,
          feas_table, feas_s1, feas_s2, feas_score, fpc>>

\* no run of score_build_feasibility on its own
FeasIdle ==
    /\ feas_table = <<>>
    /\ feas_s1 = <<>>
    /\ feas_s2 = <<>>
    /\ feas_score = <<>>
    /\ fpc = "idle"

----------------------------------------------------------------------------
(* Bounds *)

\* longest column handed to percentile_score when it is checked on its own
MaxLen == 4

\* largest raw value of such a column (values are 1..MaxVal, or NaN)
MaxVal == 3

\* the tier binning is checked on the scores k / TierDen, 0 <= k / TierDen <= 101
TierDen == 2

\* number of tracts of the modelled region
NumTracts == 3

----------------------------------------------------------------------------
(* Nullable rationals *)

NaN == <<>>

IsNaN(x) == x = <<>>

Num(n) == <<n, 1>>

\* x < y and x = y on non-missing values
RLess(x, y) == x[1] * y[2] < y[1] * x[2]

REq(x, y) == x[1] * y[2] = y[1] * x[2]

Range(s) == {s[i] : i \in DOMAIN s}

----------------------------------------------------------------------------
(* Series.rank *)

\* sort order of rank(): NaN is kept out of it by the callers below
ValLess(a, b) == ~IsNaN(a) /\ ~IsNaN(b) /\ RLess(a, b)

ValEq(a, b) == ~IsNaN(a) /\ ~IsNaN(b) /\ REq(a, b)

\* na_option="bottom": NaN is given the highest rank; NaNs tie with each other
BottomLess(a, b) == IF IsNaN(b) THEN ~IsNaN(a) ELSE ValLess(a, b)

BottomEq(a, b) == (IsNaN(a) /\ IsNaN(b)) \/ ValEq(a, b)

\* (variant with a slip: method="min", a tie group given its lowest rank)
rank2_bottom_min(s, i) ==
    2 * Cardinality({j \in DOMAIN s : BottomLess(s[j], s[i])}) + 2

\* twice the average rank (method="average") of row i, NaN ranked at the bottom
rank2_bottom(s, i) ==
    2 * Cardinality({j \in DOMAIN s : BottomLess(s[j], s[i])})
      + Cardinality({j \in DOMAIN s : BottomEq(s[j], s[i])}) + 1

\* Variants of percentile_score with a slip in them: the descending score
\* taken from series.rank(ascending=False) instead of 1 - ranks (twice that
\* rank is 2N + 2 - rank2), and rank() called without pct=True.
percentile_score_by_desc_rank(s, ascending) ==
    [i \in DOMAIN s |->
        IF ascending THEN 200 * rank2_bottom(s, i)
        ELSE 200 * (2 * Len(s) + 2 - rank2_bottom(s, i))]

percentile_score_no_pct(s, ascending) ==
    [i \in DOMAIN s |->
        IF ascending THEN 200 * Len(s) * rank2_bottom(s, i)
        ELSE 200 * Len(s) * (2 - rank2_bottom(s, i))]

\* percentile_score, in units of 1/(4 * Len(series)):
\*   ranks = series.rank(pct=True, na_option="bottom")    rank2 / (2N)
\*   if not ascending: ranks = 1 - ranks
\*   return ranks * 100
percentile_score(s, ascending) ==
    [i \in DOMAIN s |->
        IF ascending THEN 200 * rank2_bottom(s, i)
        ELSE 200 * (2 * Len(s) - rank2_bottom(s, i))]

----------------------------------------------------------------------------
(* Arithmetic on nullable rationals (pandas: NaN in, NaN out) *)

RECURSIVE Gcd(_, _)
Gcd(a, b) == IF b = 0 THEN a ELSE Gcd(b, a % b)

Abs(n) == IF n < 0 THEN -n ELSE n

Reduce(x) ==
    LET g == Gcd(Abs(x[1]), x[2])
    IN  <<x[1] \div g, x[2] \div g>>

RAdd(x, y) ==
    IF IsNaN(x) \/ IsNaN(y) THEN NaN
    ELSE Reduce(<<x[1] * y[2] + y[1] * x[2], x[2] * y[2]>>)

RSub(x, y) ==
    IF IsNaN(x) \/ IsNaN(y) THEN NaN
    ELSE Reduce(<<x[1] * y[2] - y[1] * x[2], x[2] * y[2]>>)

\* a / b * 100 on two count columns; b > 0 wherever the pipeline divides
\* (load_and_merge keeps only rows whose denominators are positive)
Pct(a, b) ==
    IF IsNaN(a) \/ IsNaN(b) THEN NaN
    ELSE Reduce(<<100 * a[1] * b[2], a[2] * b[1]>>)

\* series > 0 : a comparison with NaN is False
Positive(x) == ~IsNaN(x) /\ x[1] > 0

\* Series.clip(lower=0) keeps NaN
ClipLower0(x) == IF IsNaN(x) THEN NaN ELSE IF x[1] < 0 THEN Num(0) ELSE x

RECURSIVE SumSeq(_)
SumSeq(s) == IF s = <<>> THEN 0 ELSE Head(s) + SumSeq(Tail(s))

\* sum of a column of rationals, NaN skipped (pandas sum / mean: skipna)
RECURSIVE RSumSkipNa(_)
RSumSkipNa(s) ==
    IF s = <<>> THEN Num(0)
    ELSE IF IsNaN(Head(s)) THEN RSumSkipNa(Tail(s))
    ELSE RAdd(Head(s), RSumSkipNa(Tail(s)))

\* Series.mean(): NaN skipped, NaN when nothing is left
Mean(s) ==
    LET kept == SelectSeq(s, LAMBDA x : ~IsNaN(x))
        total == RSumSkipNa(kept)
    IN  IF kept = <<>> THEN NaN ELSE Reduce(<<total[1], total[2] * Len(kept)>>)

\* a column of a table
Col(t, f) == [i \in DOMAIN t |-> t[i][f]]

RECURSIVE Concat(_)
Concat(ss) == IF ss = <<>> THEN <<>> ELSE Head(ss) \o Concat(Tail(ss))

----------------------------------------------------------------------------
(* Input tables *)

\* The Census "not available" code of an income
IncomeNA == -666666666

\* length of the county prefix of a tract GEOID
CountyLen == 5

\* An 11-digit tract GEOID: state 51, county 001 or 003, tract 000i00.
TractGEOID(i) ==
    <<5, 1, 0, 0, IF i % 2 = 1 THEN 3 ELSE 1, 0, 0, 0, i, 0, 0>>

CountyNameOf(g) == IF g[5] = 1 THEN "Accomack" ELSE "Albemarle"

\* Rows of the demographic table (pull_acs_data.py), one per kind of tract:
\* low income, high income, income coded not-available, no population.
AcsProfiles ==
    << [total_population |-> Num(120), hh_total |-> Num(40),
        median_hh_income |-> Num(25000), hh_cellular_only |-> Num(8),
        hh_broadband_any |-> Num(20)],
       [total_population |-> Num(300), hh_total |-> Num(30),
        median_hh_income |-> Num(60000), hh_cellular_only |-> Num(3),
        hh_broadband_any |-> Num(27)],
       [total_population |-> Num(120), hh_total |-> Num(40),
        median_hh_income |-> Num(IncomeNA), hh_cellular_only |-> Num(8),
        hh_broadband_any |-> Num(20)],
       [total_population |-> Num(0), hh_total |-> Num(0),
        median_hh_income |-> NaN, hh_cellular_only |-> Num(0),
        hh_broadband_any |-> Num(0)] >>

\* Rows of the supply table (pull_fcc_bdc.py): no fiber and few providers
\* (its unserved and underserved counts exceed the total: a ratio above 100),
\* fiber and many providers, no serviceable location.
FccProfiles ==
    << [TotalBSLs |-> Num(20), UnservedBSLs |-> Num(18), UnderservedBSLs |-> Num(4),
        ServedBSLs |-> Num(8), ServedBSLsFiber |-> Num(0), ServedBSLsCopper |-> Num(6),
        UniqueProviders |-> Num(2), UniqueProvidersFiber |-> Num(0)],
       [TotalBSLs |-> Num(40), UnservedBSLs |-> Num(0), UnderservedBSLs |-> Num(2),
        ServedBSLs |-> Num(38), ServedBSLsFiber |-> Num(30), ServedBSLsCopper |-> Num(4),
        UniqueProviders |-> Num(5), UniqueProvidersFiber |-> Num(2)],
       [TotalBSLs |-> Num(0), UnservedBSLs |-> Num(0), UnderservedBSLs |-> Num(0),
        ServedBSLs |-> Num(0), ServedBSLsFiber |-> Num(0), ServedBSLsCopper |-> Num(0),
        UniqueProviders |-> Num(0), UniqueProvidersFiber |-> Num(0)] >>

\* The rurality table: one row per classified county.  The first leaves
\* county 51001 unclassified; the second holds a code outside 1..9.
RuccTables ==
    { << [FIPS |-> 51003, RUCC_2023 |-> Num(6)] >>,
      << [FIPS |-> 51001, RUCC_2023 |-> Num(1)], [FIPS |-> 51003, RUCC_2023 |-> Num(12)] >> }

\* What the two primary tables hold of one tract, <<row of the demographic
\* table, row of the supply table>>, 0 for no row: every pairing of absent /
\* low income / high income / income not available with absent / no fiber /
\* fiber, and the two rows that the positivity filter drops.
TractScenarios == ((0..3) \X (0..2)) \cup {<<4, 1>>, <<1, 3>>}

\* pick[i] = 0: tract i has no row; pick[i] = k: its row is profiles[k]
AcsTable(pick) ==
    Concat([i \in 1..NumTracts |->
        IF pick[i] = 0 THEN <<>>
        ELSE << [GEOID |-> TractGEOID(i)] @@ AcsProfiles[pick[i]] >>])

FccTable(pick) ==
    Concat([i \in 1..NumTracts |->
        IF pick[i] = 0 THEN <<>>
        ELSE << [GEOID |-> TractGEOID(i), StateAbbr |-> "VA",
                 CountyName |-> CountyNameOf(TractGEOID(i))] @@ FccProfiles[pick[i]] >>])

----------------------------------------------------------------------------
(* load_and_merge *)

\* str(n): the decimal digits of n >= 0
RECURSIVE Digits(_)
Digits(n) == IF n < 10 THEN <<n>> ELSE Append(Digits(n \div 10), n % 10)

\* str.zfill(width)
RECURSIVE ZFill(_, _)
ZFill(s, width) == IF Len(s) >= width THEN s ELSE ZFill(<<0>> \o s, width)

\* rucc["county_geoid"] = rucc["FIPS"].astype(str).str.zfill(5), then the
\* columns kept and renamed (county population and description are carried
\* along by the code and read by no score; they are left out)
RuccPrepared(t) ==
    [i \in DOMAIN t |->
        [county_geoid |-> ZFill(Digits(t[i].FIPS), CountyLen),
         rucc_code |-> t[i].RUCC_2023]]

\* (variant with a slip: the tables joined on the county prefix of the key)
InnerJoinOnCounty(left, right) ==
    Concat([i \in DOMAIN left |->
        LET hits == SelectSeq(right, LAMBDA r :
                        SubSeq(r.GEOID, 1, CountyLen) = SubSeq(left[i].GEOID, 1, CountyLen))
        IN  [k \in DOMAIN hits |-> left[i] @@ hits[k]]])

\* left.merge(right, on="GEOID", how="inner"): the pairs of rows with equal
\* GEOID, in the order of the left table
InnerJoinOnGEOID(left, right) ==
    Concat([i \in DOMAIN left |->
        LET hits == SelectSeq(right, LAMBDA r : r.GEOID = left[i].GEOID)
        IN  [k \in DOMAIN hits |-> left[i] @@ hits[k]]])

\* merged["county_geoid"] = merged["GEOID"].str[:5]
WithCountyGeoid(t) ==
    [i \in DOMAIN t |-> t[i] @@ [county_geoid |-> SubSeq(t[i].GEOID, 1, CountyLen)]]

\* merged.merge(rucc, on="county_geoid", how="left"): a row without a match
\* is kept, with a NaN rucc_code
\* (variant with a slip: how="inner", a tract without a county row is lost)
InnerJoinOnCountyGeoid(left, right) ==
    Concat([i \in DOMAIN left |->
        LET hits == SelectSeq(right, LAMBDA r : r.county_geoid = left[i].county_geoid)
        IN  [k \in DOMAIN hits |-> left[i] @@ hits[k]]])

LeftJoinOnCounty(left, right) ==
    Concat([i \in DOMAIN left |->
        LET hits == SelectSeq(right, LAMBDA r : r.county_geoid = left[i].county_geoid)
        IN  IF hits = <<>> THEN << left[i] @@ [rucc_code |-> NaN] >>
            ELSE [k \in DOMAIN hits |-> left[i] @@ hits[k]]])

\* (variant with a slip: the household count is not tested)
KeepRowNoHouseholds(r) ==
    Positive(r.total_population) /\ Positive(r.TotalBSLs)

\* the zero-population / zero-household / zero-BSL filter
KeepRow(r) ==
    Positive(r.total_population) /\ Positive(r.hh_total) /\ Positive(r.TotalBSLs)

\* (variant with a slip: the not-available code is left in the column)
CleanIncomeSkipped(t) == t

\* merged["median_hh_income"].replace(-666666666, np.nan)
CleanIncome(t) ==
    [i \in DOMAIN t |->
        [t[i] EXCEPT !.median_hh_income =
            IF ~IsNaN(@) /\ REq(@, Num(IncomeNA)) THEN NaN ELSE @]]

load_and_merge(a, f, r) ==
    LET merged == InnerJoinOnGEOID(a, f)
        joined == LeftJoinOnCounty(WithCountyGeoid(merged), RuccPrepared(r))
    IN  CleanIncome(SelectSeq(joined, KeepRow))

----------------------------------------------------------------------------
(* compute_derived_metrics: the metrics the scores read.  The education,   *)
(* employment, minority, no-internet, no-computer and density columns are  *)
(* computed by the code and read by no score; they are left out.           *)

compute_derived_metrics(t) ==
    [i \in DOMAIN t |->
        LET r == t[i]
            pct_served == Pct(r.ServedBSLs, r.TotalBSLs)
            pct_broadband == Pct(r.hh_broadband_any, r.hh_total)
        IN  r @@
            [pct_unserved |-> Pct(r.UnservedBSLs, r.TotalBSLs),
             pct_unserved_underserved |->
                 Pct(RAdd(r.UnservedBSLs, r.UnderservedBSLs), r.TotalBSLs),
             pct_no_fiber |-> Pct(RSub(r.TotalBSLs, r.ServedBSLsFiber), r.TotalBSLs),
             pct_copper_served |-> Pct(r.ServedBSLsCopper, r.TotalBSLs),
             pct_cellular_only |-> Pct(r.hh_cellular_only, r.hh_total),
             pct_broadband |-> pct_broadband,
             pct_served |-> pct_served,
             adoption_gap |-> RSub(pct_served, pct_broadband)]]

----------------------------------------------------------------------------
(* The four sub-scores, in units of 1/(400N) *)

score_supply_gap(t) ==
    LET s1 == percentile_score(Col(t, "UniqueProvidersFiber"), FALSE)
        s2 == percentile_score(Col(t, "pct_no_fiber"), TRUE)
        s3 == percentile_score(Col(t, "pct_unserved_underserved"), TRUE)
        s4 == percentile_score(Col(t, "pct_copper_served"), TRUE)
        s5 == percentile_score(Col(t, "UniqueProviders"), FALSE)
    IN  [i \in DOMAIN t |->
            s1[i] * 30 + s2[i] * 25 + s3[i] * 20 + s4[i] * 15 + s5[i] * 10]

\* insertion of x into a sorted column of non-missing values
RECURSIVE Insert(_, _)
Insert(x, s) ==
    IF s = <<>> THEN <<x>>
    ELSE IF RLess(Head(s), x) THEN <<Head(s)>> \o Insert(x, Tail(s))
    ELSE <<x>> \o s

RECURSIVE Sorted(_)
Sorted(s) == IF s = <<>> THEN <<>> ELSE Insert(Head(s), Sorted(Tail(s)))

\* (variant with a slip: the lower middle value of an even count, not the
\* mean of the two middle values)
MedianLow(s) ==
    LET v == Sorted(SelectSeq(s, LAMBDA x : ~IsNaN(x)))
    IN  IF v = <<>> THEN NaN ELSE v[(Len(v) + 1) \div 2]

\* Series.median(): of the non-missing values; NaN when there is none
Median(s) ==
    LET v == Sorted(SelectSeq(s, LAMBDA x : ~IsNaN(x)))
        n == Len(v)
    IN  IF n = 0 THEN NaN
        ELSE IF n % 2 = 1 THEN v[(n + 1) \div 2]
        ELSE LET both == RAdd(v[n \div 2], v[n \div 2 + 1])
             IN  Reduce(<<both[1], both[2] * 2>>)

\* Series.fillna(value)
FillNa(s, value) == [i \in DOMAIN s |-> IF IsNaN(s[i]) THEN value ELSE s[i]]

LowIncome == 30000

score_demand_signal(t) ==
    LET income == Col(t, "median_hh_income")
        income_filled == FillNa(income, Median(income))
        p1 == percentile_score(income_filled, TRUE)
        \* np.where(income_filled < 30000, 0.5, 1.0): NaN < 30000 is False
        s1 == [i \in DOMAIN t |->
                  IF ValLess(income_filled[i], Num(LowIncome))
                  THEN p1[i] \div 2 ELSE p1[i]]
        s2 == percentile_score(Col(t, "TotalBSLs"), TRUE)
        s3 == percentile_score(Col(t, "pct_cellular_only"), TRUE)
        gap == Col(t, "adoption_gap")
        s4 == percentile_score([i \in DOMAIN t |-> ClipLower0(gap[i])], TRUE)
        s5 == percentile_score(Col(t, "total_population"), TRUE)
    IN  [i \in DOMAIN t |->
            s1[i] * 30 + s2[i] * 25 + s3[i] * 20 + s4[i] * 15 + s5[i] * 10]

score_funding_tailwind(t) ==
    LET s1 == percentile_score(Col(t, "UnservedBSLs"), TRUE)
        s2 == percentile_score(Col(t, "pct_unserved"), TRUE)
        s3 == percentile_score(Col(t, "UnderservedBSLs"), TRUE)
        s4 == percentile_score(Col(t, "pct_unserved_underserved"), TRUE)
    IN  [i \in DOMAIN t |->
            s1[i] * 30 + s2[i] * 30 + s3[i] * 20 + s4[i] * 20]

\* df["rucc_code"].map(rucc_map).fillna(50), in points
rucc_map ==
    (1 :> 20) @@ (2 :> 35) @@ (3 :> 55) @@ (4 :> 85) @@ (5 :> 75) @@
    (6 :> 90) @@ (7 :> 70) @@ (8 :> 60) @@ (9 :> 40)

RuccDefault == 50

\* (variant with a slip: fillna(0), a code without an entry earns nothing)
RuccPointsZeroDefault(code) ==
    IF ~IsNaN(code) /\ code[2] = 1 /\ code[1] \in DOMAIN rucc_map
    THEN rucc_map[code[1]] ELSE 0

RuccPoints(code) ==
    IF ~IsNaN(code) /\ code[2] = 1 /\ code[1] \in DOMAIN rucc_map
    THEN rucc_map[code[1]] ELSE RuccDefault

\* twice the average rank under the default na_option="keep", and the number
\* of ranked (non-missing) values
rank2_keep(s, i) ==
    2 * Cardinality({j \in DOMAIN s : ValLess(s[j], s[i])})
      + Cardinality({j \in DOMAIN s : ValEq(s[j], s[i])}) + 1

CountValid(s) == Cardinality({j \in DOMAIN s : ~IsNaN(s[j])})

\* (variant with a slip: the thresholds compared with <=)
DensityPointsInclusive(s, i) ==
    LET r == rank2_keep(s, i)
        n == CountValid(s)
    IN  IF IsNaN(s[i]) THEN 30
        ELSE IF 10 * r <= 2 * n THEN 20
        ELSE IF 10 * r <= 6 * n THEN 50
        ELSE IF 10 * r <= 14 * n THEN 85
        ELSE IF 10 * r <= 18 * n THEN 60
        ELSE 30

\* the np.where ladder over bsl_pctile = rank2 / (2 * valid); every
\* comparison with a NaN percentile is False, which leaves the last value
DensityPoints(s, i) ==
    LET r == rank2_keep(s, i)
        n == CountValid(s)
    IN  IF IsNaN(s[i]) THEN 30
        ELSE IF 10 * r < 2 * n THEN 20
        ELSE IF 10 * r < 6 * n THEN 50
        ELSE IF 10 * r < 14 * n THEN 85
        ELSE IF 10 * r < 18 * n THEN 60
        ELSE 30

score_build_feasibility(t) ==
    LET n == Len(t)
        code == Col(t, "rucc_code")
        bsl_count == Col(t, "TotalBSLs")
        s1 == [i \in DOMAIN t |-> 4 * n * RuccPoints(code[i])]
        s2 == [i \in DOMAIN t |-> 4 * n * DensityPoints(bsl_count, i)]
        s3 == percentile_score(Col(t, "UniqueProviders"), FALSE)
    IN  [i \in DOMAIN t |-> s1[i] * 40 + s2[i] * 35 + s3[i] * 25]

----------------------------------------------------------------------------
(* build_composite_score *)

\* (variant with a slip: ascending=False left out)
OpportunityRankAscending(scores, i) ==
    (2 * Cardinality({j \in DOMAIN scores : scores[j] < scores[i]})
       + Cardinality({j \in DOMAIN scores : scores[j] = scores[i]}) + 1) \div 2

\* opportunity_score.rank(ascending=False).astype(int): the average rank of
\* the descending order, truncated.  (No score is NaN: see the sub-scores.)
OpportunityRank(scores, i) ==
    (2 * Cardinality({j \in DOMAIN scores : scores[j] > scores[i]})
       + Cardinality({j \in DOMAIN scores : scores[j] = scores[i]}) + 1) \div 2

TierBins == <<0, 30, 50, 65, 80, 100>>

TierLabels == <<"Low", "Below Average", "Moderate", "High", "Very High">>

\* (variant with a slip: right=False, the bins closed on the left)
CutLeftClosed(x) ==
    LET hit == {k \in DOMAIN TierLabels :
                   TierBins[k] * x[2] <= x[1] /\ x[1] < TierBins[k + 1] * x[2]}
    IN  IF hit = {} THEN NaN ELSE TierLabels[CHOOSE k \in hit : TRUE]

\* pd.cut(x, bins, labels) with the defaults right=True, include_lowest=False:
\* the label of the bin (bins[k], bins[k+1]] that holds x = n/d, else NaN
Cut(x) ==
    LET hit == {k \in DOMAIN TierLabels :
                   TierBins[k] * x[2] < x[1] /\ x[1] <= TierBins[k + 1] * x[2]}
    IN  IF hit = {} THEN NaN ELSE TierLabels[CHOOSE k \in hit : TRUE]

\* (variant with a slip: the four sub-scores weighted alike)
OpportunityScoreUnweighted(supply, demand, funding, feasibility) ==
    supply * 25 + demand * 25 + funding * 25 + feasibility * 25

\* the composite, in units of 1/(40000N)
OpportunityScore(supply, demand, funding, feasibility) ==
    supply * 40 + demand * 30 + funding * 15 + feasibility * 15

build_composite_score(t) ==
    LET n == Len(t)
        supply == score_supply_gap(t)
        demand == score_demand_signal(t)
        funding == score_funding_tailwind(t)
        feasibility == score_build_feasibility(t)
        opp == [i \in DOMAIN t |->
                   OpportunityScore(supply[i], demand[i], funding[i], feasibility[i])]
    IN  [i \in DOMAIN t |->
            t[i] @@
            [score_supply_gap |-> supply[i],
             score_demand_signal |-> demand[i],
             score_funding_tailwind |-> funding[i],
             score_build_feasibility |-> feasibility[i],
             opportunity_score |-> opp[i],
             opportunity_rank |-> OpportunityRank(opp, i),
             opportunity_tier |-> Cut(<<opp[i], 40000 * n>>)]]

----------------------------------------------------------------------------
(* The county rollup of main() *)

\* Python's order on the strings of the tables (they are all listed here)
StringOrder == <<"Accomack", "Albemarle", "VA">>

StrLess(a, b) ==
    \E i \in DOMAIN StringOrder : \E j \in DOMAIN StringOrder :
        StringOrder[i] = a /\ StringOrder[j] = b /\ i < j

\* order of two equally long digit strings
RECURSIVE DigitsLess(_, _)
DigitsLess(a, b) ==
    /\ a # <<>>
    /\ \/ Head(a) < Head(b)
       \/ Head(a) = Head(b) /\ DigitsLess(Tail(a), Tail(b))

GroupKey(r) == <<r.StateAbbr, r.CountyName, r.county_geoid, r.rucc_code>>

\* groupby(...) sorts the groups by key
GroupKeyLess(a, b) ==
    \/ StrLess(a[1], b[1])
    \/ a[1] = b[1] /\ StrLess(a[2], b[2])
    \/ a[1] = b[1] /\ a[2] = b[2] /\ DigitsLess(a[3], b[3])
    \/ a[1] = b[1] /\ a[2] = b[2] /\ a[3] = b[3] /\ RLess(a[4], b[4])

RECURSIVE SetToSortedSeq(_)
SetToSortedSeq(S) ==
    IF S = {} THEN <<>>
    ELSE LET least == CHOOSE x \in S : \A y \in S \ {x} : GroupKeyLess(x, y)
         IN  <<least>> \o SetToSortedSeq(S \ {least})

\* groupby's default dropna=True: a row with a NaN in a key is in no group
GroupedRows(t) == SelectSeq(t, LAMBDA r : ~IsNaN(r.rucc_code))

AggregateGroup(t, key) ==
    LET rows == SelectSeq(t, LAMBDA r : GroupKey(r) = key)
        scores == Col(rows, "opportunity_score")
    IN  [StateAbbr |-> key[1], CountyName |-> key[2],
         county_geoid |-> key[3], rucc_code |-> key[4],
         avg_score |-> <<SumSeq(scores), Len(rows)>>,
         max_score |-> CHOOSE m \in Range(scores) : \A x \in Range(scores) : x <= m,
         tract_count |-> Len(SelectSeq(rows, LAMBDA r : ~IsNaN(r.GEOID))),
         total_bsls |-> RSumSkipNa(Col(rows, "TotalBSLs")),
         total_unserved |-> RSumSkipNa(Col(rows, "UnservedBSLs")),
         avg_income |-> Mean(Col(rows, "median_hh_income")),
         avg_no_fiber_pct |-> Mean(Col(rows, "pct_no_fiber"))]

\* sort_values("avg_score", ascending=False); rows of equal avg_score keep
\* their order
RECURSIVE InsertByAvgDesc(_, _)
InsertByAvgDesc(x, s) ==
    IF s = <<>> THEN <<x>>
    ELSE IF RLess(Head(s).avg_score, x.avg_score) THEN <<x>> \o s
    ELSE <<Head(s)>> \o InsertByAvgDesc(x, Tail(s))

RECURSIVE SortByAvgDesc(_)
SortByAvgDesc(s) ==
    IF s = <<>> THEN <<>>
    ELSE InsertByAvgDesc(s[Len(s)], SortByAvgDesc(SubSeq(s, 1, Len(s) - 1)))

CountyScores(t) ==
    LET rows == GroupedRows(t)
        keys == SetToSortedSeq({GroupKey(rows[i]) : i \in DOMAIN rows})
    IN  SortByAvgDesc([k \in DOMAIN keys |-> AggregateGroup(rows, keys[k])])

----------------------------------------------------------------------------
(* main() *)

Init ==
    /\ pc = "load"
    /\ \E pick \in [1..NumTracts -> TractScenarios] :
          /\ acs = AcsTable([i \in 1..NumTracts |-> pick[i][1]])
          /\ fcc = FccTable([i \in 1..NumTracts |-> pick[i][2]])
    /\ rucc \in RuccTables
    /\ df = <<>>
    /\ county_scores = <<>>
    /\ tract_file = <<>>
    /\ county_file = <<>>
    /\ series = <<>>
    /\ score_asc = <<>>
    /\ score_desc = <<>>
    /\ ppc = "idle"
    /\ cut_x = <<0, 1>>
    /\ cut_label = NaN
    /\ cpc = "idle"
    /\ FeasIdle

\* df = load_and_merge()
LoadAndMerge ==
    /\ pc = "load"
    /\ df' = load_and_merge(acs, fcc, rucc)
    /\ pc' = "metrics"
    /\ UNCHANGED <<acs, fcc, rucc, county_scores, tract_file, county_file,
                   pctVars, cutVars, feasVars>>

\* df = compute_derived_metrics(df)
ComputeDerivedMetrics ==
    /\ pc = "metrics"
    /\ df' = compute_derived_metrics(df)
    /\ pc' = "score"
    /\ UNCHANGED <<acs, fcc, rucc, county_scores, tract_file, county_file,
                   pctVars, cutVars, feasVars>>

\* df = build_composite_score(df)
BuildCompositeScore ==
    /\ pc = "score"
    /\ df' = build_composite_score(df)
    /\ pc' = "rollup"
    /\ UNCHANGED <<acs, fcc, rucc, county_scores, tract_file, county_file,
                   pctVars, cutVars, feasVars>>

\* county_scores = df.groupby(...).agg(...).reset_index().sort_values(...)
CountyRollup ==
    /\ pc = "rollup"
    /\ county_scores' = CountyScores(df)
    /\ pc' = "write_tract"
    /\ UNCHANGED <<acs, fcc, rucc, df, tract_file, county_file, pctVars, cutVars, feasVars>>

\* df.to_csv(outpath)
WriteTractScores ==
    /\ pc = "write_tract"
    /\ tract_file' = <<df>>
    /\ pc' = "write_county"
    /\ UNCHANGED <<acs, fcc, rucc, df, county_scores, county_file, pctVars, cutVars, feasVars>>

\* county_scores.to_csv(county_outpath)
WriteCountyScores ==
    /\ pc = "write_county"
    /\ county_file' = <<county_scores>>
    /\ pc' = "done"
    /\ UNCHANGED <<acs, fcc, rucc, df, county_scores, tract_file, pctVars, cutVars, feasVars>>

\* read_csv or to_csv raises (a file missing, unreadable or unwritable): the
\* exception leaves main(), which catches nothing, and the run ends there
IOError ==
    /\ pc \in {"load", "write_tract", "write_county"}
    /\ pc' = "failed"
    /\ UNCHANGED <<acs, fcc, rucc, df, county_scores, tract_file, county_file,
                   pctVars, cutVars, feasVars>>

Next ==
    \/ LoadAndMerge
    \/ ComputeDerivedMetrics
    \/ BuildCompositeScore
    \/ CountyRollup
    \/ WriteTractScores
    \/ WriteCountyScores
    \/ IOError

Spec == Init /\ [][Next]_vars

----------------------------------------------------------------------------
(* percentile_score on its own: any column of values and NaNs *)

Cells == {NaN} \cup {Num(v) : v \in 1..MaxVal}

Columns == UNION {[1..n -> Cells] : n \in 0..MaxLen}

MainIdle ==
    /\ pc = "idle"
    /\ acs = <<>>
    /\ fcc = <<>>
    /\ rucc = <<>>
    /\ df = <<>>
    /\ county_scores = <<>>
    /\ tract_file = <<>>
    /\ county_file = <<>>

PctInit ==
    /\ series \in Columns
    /\ score_asc = <<>>
    /\ score_desc = <<>>
    /\ ppc = "call"
    /\ cut_x = <<0, 1>>
    /\ cut_label = NaN
    /\ cpc = "idle"
    /\ FeasIdle
    /\ MainIdle

ApplyPercentile ==
    /\ ppc = "call"
    /\ score_asc' = percentile_score(series, TRUE)
    /\ score_desc' = percentile_score(series, FALSE)
    /\ ppc' = "returned"
    /\ UNCHANGED <<series, mainVars, cutVars, feasVars>>

PctNext == ApplyPercentile

SpecPct == PctInit /\ [][PctNext]_vars

----------------------------------------------------------------------------
(* The tier binning on its own: any composite score k / TierDen *)

CutInit ==
    /\ cut_x \in {<<k, TierDen>> : k \in 0..(101 * TierDen)}
    /\ cut_label = NaN
    /\ cpc = "call"
    /\ series = <<>>
    /\ score_asc = <<>>
    /\ score_desc = <<>>
    /\ ppc = "idle"
    /\ MainIdle
    /\ FeasIdle

ApplyCut ==
    /\ cpc = "call"
    /\ cut_label' = Cut(cut_x)
    /\ cpc' = "returned"
    /\ UNCHANGED <<cut_x, mainVars, pctVars, feasVars>>

CutNext == ApplyCut

SpecTier == CutInit /\ [][CutNext]_vars

----------------------------------------------------------------------------
(* score_build_feasibility on its own: tables long enough for the lowest   *)
(* density bucket, and every rurality code                                 *)

\* longest table handed to score_build_feasibility when it is checked on its
\* own (a percentile rank below 0.1 takes more than 10 rows)
MaxRows == 11

\* largest rurality code of such a table
MaxCode == 10

\* the rurality codes: none, 0..MaxCode, and one that is not whole
CodeCases == <<NaN>> \o [k \in 1..(MaxCode + 1) |-> Num(k - 1)] \o << <<13, 2>> >>

\* a table of n rows: BSL counts bsl, and the codes of CodeCases in turn from
\* its c-th on
FeasTable(n, bsl, c) ==
    [i \in 1..n |->
        [rucc_code |-> CodeCases[((c + i - 2) % Len(CodeCases)) + 1],
         TotalBSLs |-> bsl[i],
         UniqueProviders |-> Num(2)]]

FeasInit ==
    /\ \E n \in 1..MaxRows :
       \E bsl \in [1..n -> {Num(20), Num(40)}] :
       \E c \in DOMAIN CodeCases :
          feas_table = FeasTable(n, bsl, c)
    /\ feas_s1 = <<>>
    /\ feas_s2 = <<>>
    /\ feas_score = <<>>
    /\ fpc = "call"
    /\ series = <<>>
    /\ score_asc = <<>>
    /\ score_desc = <<>>
    /\ ppc = "idle"
    /\ cut_x = <<0, 1>>
    /\ cut_label = NaN
    /\ cpc = "idle"
    /\ MainIdle

\* s1 and s2 as score_build_feasibility computes them, in points, and the
\* score it returns
ApplyFeasibility ==
    /\ fpc = "call"
    /\ feas_s1' = [i \in DOMAIN feas_table |-> RuccPoints(feas_table[i].rucc_code)]
    /\ feas_s2' = [i \in DOMAIN feas_table |->
                      DensityPoints(Col(feas_table, "TotalBSLs"), i)]
    /\ feas_score' = score_build_feasibility(feas_table)
    /\ fpc' = "returned"
    /\ UNCHANGED <<feas_table, mainVars, pctVars, cutVars>>

FeasNext == ApplyFeasibility

SpecFeas == FeasInit /\ [][FeasNext]_vars

----------------------------------------------------------------------------
(* main() on tables whose first tract has any one of the filtered fields    *)
(* missing or zero, and whose incomes are missing, not available or known   *)

RowsTracts == 3

\* <<total_population, hh_total, TotalBSLs>> of the first tract: all three
\* positive, or exactly one of them missing, or exactly one of them zero
FilterCases ==
    { <<Num(120), Num(40), Num(20)>>,
      <<NaN, Num(40), Num(20)>>, <<Num(0), Num(40), Num(20)>>,
      <<Num(120), NaN, Num(20)>>, <<Num(120), Num(0), Num(20)>>,
      <<Num(120), Num(40), NaN>>, <<Num(120), Num(40), Num(0)>> }

\* median_hh_income of a tract: an empty cell, the not-available code, a low
\* and a high income
IncomeCases == {NaN, Num(IncomeNA), Num(25000), Num(60000)}

\* the tables of a run, a row for each tract of present: the first tract
\* takes its filtered fields from f, and tract i its income from inc[i]
RowsAcs(f, inc, present) ==
    Concat([i \in 1..RowsTracts |->
        IF i \notin present THEN <<>>
        ELSE << [[GEOID |-> TractGEOID(i)] @@ AcsProfiles[1]
                    EXCEPT !.median_hh_income = inc[i],
                           !.total_population = IF i = 1 THEN f[1] ELSE @,
                           !.hh_total = IF i = 1 THEN f[2] ELSE @] >>])

RowsFcc(f, inc, present) ==
    Concat([i \in 1..RowsTracts |->
        IF i \notin present THEN <<>>
        ELSE << [[GEOID |-> TractGEOID(i), StateAbbr |-> "VA",
                  CountyName |-> CountyNameOf(TractGEOID(i))]
                    @@ FccProfiles[IF i % 2 = 1 THEN 1 ELSE 2]
                    EXCEPT !.TotalBSLs = IF i = 1 THEN f[3] ELSE @] >>])

RowsInit ==
    /\ pc = "load"
    /\ \E f \in FilterCases :
       \E inc \in [1..RowsTracts -> IncomeCases] :
       \E later \in SUBSET (2..RowsTracts) :
          /\ acs = RowsAcs(f, inc, {1} \cup later)
          /\ fcc = RowsFcc(f, inc, {1} \cup later)
    /\ rucc = << [FIPS |-> 51003, RUCC_2023 |-> Num(6)] >>
    /\ df = <<>>
    /\ county_scores = <<>>
    /\ tract_file = <<>>
    /\ county_file = <<>>
    /\ series = <<>>
    /\ score_asc = <<>>
    /\ score_desc = <<>>
    /\ ppc = "idle"
    /\ cut_x = <<0, 1>>
    /\ cut_label = NaN
    /\ cpc = "idle"
    /\ FeasIdle

SpecRows == RowsInit /\ [][Next]_vars

----------------------------------------------------------------------------
(* Claims *)

\* build_composite_score has run on df: its rows carry the score columns
Scored == pc \in {"rollup", "write_tract", "write_county", "done"}

\* 100 points in the units of a sub-score and of the composite of an N-row table
Hundred400(n) == 100 * 400 * n

Hundred40000(n) == 100 * 40000 * n

(* C1: with ascending=True every missing entry's score is <= the score of  *)
(* every non-missing entry (missing ranked as the worst value).            *)
C1_MissingLowest ==
    ppc = "returned" =>
        \A i \in DOMAIN series : \A j \in DOMAIN series :
            (IsNaN(series[i]) /\ ~IsNaN(series[j])) => score_asc[i] <= score_asc[j]

(* C2: the opportunity rank is a dense descending rank: equal composite    *)
(* scores get equal ranks, the highest composite score gets rank 1, and    *)
(* the ranks used are exactly 1..k, k the number of distinct scores.       *)
C2_DenseRank ==
    Scored =>
        LET score == Col(df, "opportunity_score")
            rank == Col(df, "opportunity_rank")
        IN  /\ \A i \in DOMAIN df : \A j \in DOMAIN df :
                  score[i] = score[j] => rank[i] = rank[j]
            /\ \A i \in DOMAIN df :
                  (\A j \in DOMAIN df : score[j] <= score[i]) => rank[i] = 1
            /\ Range(rank) = 1..Cardinality(Range(score))

(* C3: rank monotonicity: a tract with a strictly greater composite score  *)
(* never has a numerically larger rank; the ranks of two tracts are equal  *)
(* only under the tie rule, that is, never when the scores differ.         *)
C3_RankMonotone ==
    Scored =>
        \A i \in DOMAIN df : \A j \in DOMAIN df :
            df[i].opportunity_score > df[j].opportunity_score
                => df[i].opportunity_rank < df[j].opportunity_rank

C3_Witness ==
    /\ Scored
    /\ \E i \in DOMAIN df : \E j \in DOMAIN df : \E k \in DOMAIN df :
          /\ i # j
          /\ df[i].opportunity_score = df[j].opportunity_score
          /\ df[k].opportunity_score > df[i].opportunity_score

(* C4: every sub-score and the composite score of every scored tract lie   *)
(* in [0, 100], missing values and ratios above 100 included.              *)
C4_ScoresInRange ==
    Scored =>
        \A i \in DOMAIN df :
            /\ \A f \in {"score_supply_gap", "score_demand_signal",
                         "score_funding_tailwind", "score_build_feasibility"} :
                  0 <= df[i][f] /\ df[i][f] <= Hundred400(Len(df))
            /\ 0 <= df[i].opportunity_score
            /\ df[i].opportunity_score <= Hundred40000(Len(df))

C4_Witness ==
    /\ Scored
    /\ Len(df) >= 2
    /\ \E i \in DOMAIN df : IsNaN(df[i].median_hh_income)
    /\ \E i \in DOMAIN df : RLess(Num(100), df[i].pct_unserved_underserved)

(* C5: the tier bins are closed on the right: Low for 0 < s <= 30, Below   *)
(* Average for 30 < s <= 50, Moderate for 50 < s <= 65, High for           *)
(* 65 < s <= 80, Very High for 80 < s <= 100.                              *)
C5_TiersRightInclusive ==
    cpc = "returned" =>
        LET n == cut_x[1]
            d == cut_x[2]
        IN  /\ (0 < n /\ n <= 30 * d) => cut_label = "Low"
            /\ (30 * d < n /\ n <= 50 * d) => cut_label = "Below Average"
            /\ (50 * d < n /\ n <= 65 * d) => cut_label = "Moderate"
            /\ (65 * d < n /\ n <= 80 * d) => cut_label = "High"
            /\ (80 * d < n /\ n <= 100 * d) => cut_label = "Very High"

C5_Witness ==
    /\ cpc = "returned"
    /\ cut_x[1] = 50 * cut_x[2]

(* C6: when the demographic table or the supply table has no row, or their *)
(* inner join on GEOID has none, the run is a fatal error: nothing is      *)
(* scored and neither output table is written.                             *)
C6_EmptyInputIsFatal ==
    (acs = <<>> \/ fcc = <<>> \/ InnerJoinOnGEOID(acs, fcc) = <<>>) =>
        /\ ~Scored
        /\ tract_file = <<>>
        /\ county_file = <<>>

(* C7: no partial output: at every point of a run, failed or not, either   *)
(* neither output table is written, or both are and the tract table holds  *)
(* score, rank and tier for every retained tract.                          *)
C7_NoPartialOutput ==
    \/ tract_file = <<>> /\ county_file = <<>>
    \/ /\ tract_file # <<>>
       /\ county_file # <<>>
       /\ \A i \in DOMAIN tract_file[1] :
             /\ "opportunity_score" \in DOMAIN tract_file[1][i]
             /\ "opportunity_rank" \in DOMAIN tract_file[1][i]
             /\ ~IsNaN(tract_file[1][i].opportunity_tier)

(* C8: after load_and_merge every GEOID of the merged table is non-null,   *)
(* is in exactly one row, and is in both the demographic and the supply    *)
(* table.                                                                  *)
C8_MergedKeys ==
    pc # "load" =>
        \A i \in DOMAIN df :
            /\ ~IsNaN(df[i].GEOID)
            /\ \A j \in DOMAIN df : df[j].GEOID = df[i].GEOID => j = i
            /\ \E a \in DOMAIN acs : acs[a].GEOID = df[i].GEOID
            /\ \E f \in DOMAIN fcc : fcc[f].GEOID = df[i].GEOID

C8_Witness ==
    /\ pc = "metrics"
    /\ df # <<>>
    /\ \E a \in DOMAIN acs : \A f \in DOMAIN fcc : fcc[f].GEOID # acs[a].GEOID
    /\ \E f \in DOMAIN fcc : \A a \in DOMAIN acs : acs[a].GEOID # fcc[f].GEOID

(* C9: the county rollup has, for every county with a scored tract, a row  *)
(* whose tract_count is the number of scored tracts of that county, so the *)
(* counts add up to the number of scored tracts; a county whose tracts     *)
(* have a null rurality code is included.                                  *)
C9_RollupCoversCounties ==
    pc \in {"write_tract", "write_county", "done"} =>
        /\ \A i \in DOMAIN df :
              \E k \in DOMAIN county_scores :
                  /\ county_scores[k].county_geoid = df[i].county_geoid
                  /\ county_scores[k].tract_count =
                        Cardinality({j \in DOMAIN df :
                                        df[j].county_geoid = df[i].county_geoid})
        /\ SumSeq(Col(county_scores, "tract_count")) = Len(df)

(* C11: on a column of distinct non-missing values, ascending=True gives   *)
(* the minimum the lowest score of the column and the maximum exactly 100, *)
(* and a greater value a strictly greater score.  On any column tied       *)
(* values get the same score, by the average-rank convention: the ranks of *)
(* a column of N rows add up to N(N+1)/2, so the scores to 200 N (N+1)     *)
(* units of 1/(4N).                                                        *)
C11_DistinctColumn ==
    /\ \A i \in DOMAIN series : ~IsNaN(series[i])
    /\ \A i \in DOMAIN series : \A j \in DOMAIN series :
          REq(series[i], series[j]) => i = j

C11_MinMaxMonotoneTies ==
    ppc = "returned" =>
        /\ C11_DistinctColumn =>
              \A i \in DOMAIN series :
                 /\ (\A j \in DOMAIN series : ~RLess(series[j], series[i]))
                       => \A j \in DOMAIN series : score_asc[i] <= score_asc[j]
                 /\ (\A j \in DOMAIN series : ~RLess(series[i], series[j]))
                       => score_asc[i] = 400 * Len(series)
                 /\ \A j \in DOMAIN series :
                       RLess(series[i], series[j]) => score_asc[i] < score_asc[j]
        /\ \A i \in DOMAIN series : \A j \in DOMAIN series :
              ValEq(series[i], series[j]) => score_asc[i] = score_asc[j]
        /\ SumSeq(score_asc) = 200 * Len(series) * (Len(series) + 1)

C11_Witness ==
    /\ ppc = "returned"
    /\ Len(series) >= 3
    /\ C11_DistinctColumn

(* C12: the income component of the demand score ranks a missing income   *)
(* as the median of the known incomes, and is halved exactly for the       *)
(* tracts whose income after that imputation is below 30000.  The demand   *)
(* score of every scored tract is 30 times that component plus the four    *)
(* other weighted percentile scores.                                       *)
\* the k-th smallest of the known incomes of the scored table
C12_KthIncome(k) ==
    LET known == {i \in DOMAIN df : ~IsNaN(df[i].median_hh_income)}
        pos == CHOOSE i \in known :
                  /\ Cardinality({j \in known : RLess(df[j].median_hh_income,
                                                      df[i].median_hh_income)}) < k
                  /\ Cardinality({j \in known : ~RLess(df[i].median_hh_income,
                                                       df[j].median_hh_income)}) >= k
    IN  df[pos].median_hh_income

\* the median of the known incomes, NaN when no income is known
C12_MedianIncome ==
    LET n == Cardinality({i \in DOMAIN df : ~IsNaN(df[i].median_hh_income)})
    IN  IF n = 0 THEN NaN
        ELSE IF n % 2 = 1 THEN C12_KthIncome((n + 1) \div 2)
        ELSE LET lo == C12_KthIncome(n \div 2)
                 hi == C12_KthIncome(n \div 2 + 1)
             IN  Reduce(<<lo[1] * hi[2] + hi[1] * lo[2], 2 * lo[2] * hi[2]>>)

\* the income a tract is ranked with
C12_ImputedIncome(i) ==
    IF IsNaN(df[i].median_hh_income) THEN C12_MedianIncome
    ELSE df[i].median_hh_income

\* the income component of tract i, in units of 1/(4N)
C12_IncomeComponent(i) ==
    LET x == C12_ImputedIncome(i)
        below == IF IsNaN(x) THEN {}
                 ELSE {j \in DOMAIN df : RLess(C12_ImputedIncome(j), x)}
        tied == {j \in DOMAIN df : C12_ImputedIncome(j) = x}
        score == 200 * (2 * Cardinality(below) + Cardinality(tied) + 1)
    IN  IF ~IsNaN(x) /\ x[1] < 30000 * x[2] THEN score \div 2 ELSE score

C12_IncomeImputedThenPenalised ==
    Scored =>
        \A i \in DOMAIN df :
            df[i].score_demand_signal =
                  30 * C12_IncomeComponent(i)
                + 25 * percentile_score(Col(df, "TotalBSLs"), TRUE)[i]
                + 20 * percentile_score(Col(df, "pct_cellular_only"), TRUE)[i]
                + 15 * percentile_score(
                          [j \in DOMAIN df |-> ClipLower0(df[j].adoption_gap)], TRUE)[i]
                + 10 * percentile_score(Col(df, "total_population"), TRUE)[i]

\* a tract of unknown income scored among two tracts of known incomes whose
\* median is below 30000, and its component is the halved one
C12_Witness ==
    /\ Scored
    /\ \E i \in DOMAIN df :
          /\ IsNaN(df[i].median_hh_income)
          /\ Cardinality({j \in DOMAIN df : ~IsNaN(df[j].median_hh_income)}) = 2
          /\ C12_MedianIncome[1] < 30000 * C12_MedianIncome[2]

(* C13: every row that reaches the metrics, the scores and the tract file   *)
(* has a known population, household count and BSL count, all above zero;  *)
(* a tract of both input tables with one of the three missing or not above *)
(* zero has no row in the working table and none in the tract file.        *)
C13_AboveZero(x) == ~IsNaN(x) /\ x[1] > 0 /\ x[2] > 0

C13_RowPasses(r) ==
    /\ C13_AboveZero(r.total_population)
    /\ C13_AboveZero(r.hh_total)
    /\ C13_AboveZero(r.TotalBSLs)

C13_FilteredBeforeScoring ==
    /\ \A i \in DOMAIN df : C13_RowPasses(df[i])
    /\ \A k \in DOMAIN tract_file : \A i \in DOMAIN tract_file[k] :
          C13_RowPasses(tract_file[k][i])
    /\ \A a \in DOMAIN acs : \A f \in DOMAIN fcc :
          (acs[a].GEOID = fcc[f].GEOID /\ ~C13_RowPasses(acs[a] @@ fcc[f]))
             => /\ \A i \in DOMAIN df : df[i].GEOID # acs[a].GEOID
                /\ \A k \in DOMAIN tract_file : \A i \in DOMAIN tract_file[k] :
                      tract_file[k][i].GEOID # acs[a].GEOID

\* a run that wrote its files, one of whose tracts has no household count
\* while its population and BSL count are positive
C13_Witness ==
    /\ pc = "done"
    /\ tract_file # <<>> /\ tract_file[1] # <<>>
    /\ \E a \in DOMAIN acs : \E f \in DOMAIN fcc :
          /\ acs[a].GEOID = fcc[f].GEOID
          /\ IsNaN(acs[a].hh_total)
          /\ C13_AboveZero(acs[a].total_population)
          /\ C13_AboveZero(fcc[f].TotalBSLs)

(* C14: the join with the rurality table drops no tract.  Every tract of    *)
(* both input tables with positive population, households and BSLs has     *)
(* exactly one row once the table is loaded, and that row carries the code *)
(* of the county whose FIPS is the first five digits of the tract GEOID,   *)
(* or no code when the rurality table has no such county.                  *)
C14_Loaded ==
    pc \in {"metrics", "score", "rollup", "write_tract", "write_county", "done"}

\* the county number spelled by the first five digits of a GEOID
C14_CountyNumber(g) ==
    g[1] * 10000 + g[2] * 1000 + g[3] * 100 + g[4] * 10 + g[5]

C14_CountyRows(g) == {r \in DOMAIN rucc : rucc[r].FIPS = C14_CountyNumber(g)}

C14_LeftJoinKeepsTracts ==
    C14_Loaded =>
        \A a \in DOMAIN acs : \A f \in DOMAIN fcc :
            (/\ acs[a].GEOID = fcc[f].GEOID
             /\ Positive(acs[a].total_population)
             /\ Positive(acs[a].hh_total)
             /\ Positive(fcc[f].TotalBSLs))
            => LET g == acs[a].GEOID
                   rows == {i \in DOMAIN df : df[i].GEOID = g}
               IN  /\ Cardinality(rows) = 1
                   /\ \A i \in rows :
                         IF C14_CountyRows(g) = {} THEN IsNaN(df[i].rucc_code)
                         ELSE \E r \in C14_CountyRows(g) :
                                 df[i].rucc_code = rucc[r].RUCC_2023

\* a loaded table with a tract of a county the rurality table lacks, next to
\* a tract of a county it holds
C14_Witness ==
    /\ C14_Loaded
    /\ \E i \in DOMAIN df : \E j \in DOMAIN df :
          /\ C14_CountyRows(df[i].GEOID) = {}
          /\ IsNaN(df[i].rucc_code)
          /\ C14_CountyRows(df[j].GEOID) # {}
          /\ ~IsNaN(df[j].rucc_code)

(* C15: the rurality component of a tract is read off its own code alone:   *)
(* 1 gives 20, 2 gives 35, 3 gives 55, 4 gives 85, 5 gives 75, 6 gives 90, *)
(* 7 gives 70, 8 gives 60, 9 gives 40, and a missing code or any other     *)
(* value gives 50.                                                         *)
C15_Expected(code) ==
    CASE code = Num(1) -> 20
      [] code = Num(2) -> 35
      [] code = Num(3) -> 55
      [] code = Num(4) -> 85
      [] code = Num(5) -> 75
      [] code = Num(6) -> 90
      [] code = Num(7) -> 70
      [] code = Num(8) -> 60
      [] code = Num(9) -> 40
      [] OTHER -> 50

C15_RuralityLookup ==
    fpc = "returned" =>
        \A i \in DOMAIN feas_table :
            feas_s1[i] = C15_Expected(feas_table[i].rucc_code)

\* a table with a row without a code, a row with code 0, a row with a code
\* above 9 and a row with code 6
C15_Witness ==
    /\ fpc = "returned"
    /\ \E i \in DOMAIN feas_table : IsNaN(feas_table[i].rucc_code) /\ feas_s1[i] = 50
    /\ \E i \in DOMAIN feas_table : feas_table[i].rucc_code = Num(0)
    /\ \E i \in DOMAIN feas_table : feas_table[i].rucc_code = Num(10)
    /\ \E i \in DOMAIN feas_table : feas_table[i].rucc_code = Num(6) /\ feas_s1[i] = 90

(* C16: the density component is a step function of the average-rank       *)
(* percentile p of a tract's BSL count among the N rows, 0 < p <= 1: 20    *)
(* for p < 0.1, 50 for 0.1 <= p < 0.3, 85 for 0.3 <= p < 0.7, 60 for       *)
(* 0.7 <= p < 0.9 and 30 for 0.9 <= p <= 1.  p is rank2 / (2N) with rank2  *)
(* twice the average rank, so p < k/10 is 10 rank2 < 2 k N.                *)
C16_Rank2(i) ==
    LET x == feas_table[i].TotalBSLs
    IN  2 * Cardinality({j \in DOMAIN feas_table : RLess(feas_table[j].TotalBSLs, x)})
          + Cardinality({j \in DOMAIN feas_table : REq(feas_table[j].TotalBSLs, x)}) + 1

C16_DensityBuckets ==
    fpc = "returned" =>
        \A i \in DOMAIN feas_table :
            LET n == Len(feas_table)
                p10 == 10 * C16_Rank2(i)
            IN  /\ 0 < p10 /\ p10 <= 20 * n
                /\ (p10 < 2 * n) => feas_s2[i] = 20
                /\ (2 * n <= p10 /\ p10 < 6 * n) => feas_s2[i] = 50
                /\ (6 * n <= p10 /\ p10 < 14 * n) => feas_s2[i] = 85
                /\ (14 * n <= p10 /\ p10 < 18 * n) => feas_s2[i] = 60
                /\ (18 * n <= p10) => feas_s2[i] = 30

\* a table with a tract below the 10th percentile, in the lowest bucket, and
\* a tract in the middle bucket
C16_Witness ==
    /\ fpc = "returned"
    /\ \E i \in DOMAIN feas_table :
          10 * C16_Rank2(i) < 2 * Len(feas_table) /\ feas_s2[i] = 20
    /\ \E i \in DOMAIN feas_table : feas_s2[i] = 85

(* C17: the composite score of a scored tract is 0.40 x supply + 0.30 x     *)
(* demand + 0.15 x funding + 0.15 x feasibility of its four sub-scores,    *)
(* and nothing else.                                                       *)
C17_CompositeWeights ==
    Scored =>
        \A i \in DOMAIN df :
            df[i].opportunity_score =
                  40 * df[i].score_supply_gap + 30 * df[i].score_demand_signal
                + 15 * df[i].score_funding_tailwind
                + 15 * df[i].score_build_feasibility

\* a scored tract whose four sub-scores are pairwise different
C17_Witness ==
    /\ Scored
    /\ \E i \in DOMAIN df :
          Cardinality({df[i].score_supply_gap, df[i].score_demand_signal,
                       df[i].score_funding_tailwind,
                       df[i].score_build_feasibility}) = 4

(* C18: the not-available income code is turned into a missing value when  *)
(* the table is loaded: no row of the working table holds it, and the      *)
(* scored table is the one scored from the same inputs with every          *)
(* not-available income left empty.                                        *)
C18_AcsWithMissing ==
    [a \in DOMAIN acs |->
        [acs[a] EXCEPT !.median_hh_income =
            IF @ = <<-666666666, 1>> THEN <<>> ELSE @]]

C18_SentinelIsMissing ==
    /\ \A i \in DOMAIN df : df[i].median_hh_income # <<-666666666, 1>>
    /\ Scored =>
          df = build_composite_score(compute_derived_metrics(
                   load_and_merge(C18_AcsWithMissing, fcc, rucc)))

\* a scored table with a tract whose income was read as the not-available
\* code, next to a tract of known income
C18_Witness ==
    /\ Scored
    /\ \E a \in DOMAIN acs : \E i \in DOMAIN df :
          /\ acs[a].median_hh_income = <<-666666666, 1>>
          /\ df[i].GEOID = acs[a].GEOID
          /\ IsNaN(df[i].median_hh_income)
    /\ \E i \in DOMAIN df : ~IsNaN(df[i].median_hh_income)

(* C19: every scored tract has one of the five tier labels: its composite   *)
(* score is above 0 and at most 100, so it falls in a bin.                 *)
C19_EveryTractHasTier ==
    Scored =>
        \A i \in DOMAIN df :
            /\ 0 < df[i].opportunity_score
            /\ df[i].opportunity_score <= 100 * 40000 * Len(df)
            /\ df[i].opportunity_tier \in
                  {"Low", "Below Average", "Moderate", "High", "Very High"}

\* a scored table with tracts in two different tiers
C19_Witness ==
    /\ Scored
    /\ \E i \in DOMAIN df : \E j \in DOMAIN df :
          /\ df[i].opportunity_tier = "Very High"
          /\ df[j].opportunity_tier = "Below Average"

(* C10: for every column and row i, percentile_score(column, False)[i] =   *)
(* 100 - percentile_score(column, True)[i], ties and NaNs included.        *)
(* 100 is 400 * Len(series) units.                                         *)
C10_DescIsComplement ==
    ppc = "returned" =>
        \A i \in DOMAIN series :
            score_desc[i] = 400 * Len(series) - score_asc[i]

C10_Witness ==
    /\ ppc = "returned"
    /\ \E i \in DOMAIN series : \E j \in DOMAIN series : \E k \in DOMAIN series :
          /\ i # j
          /\ ValEq(series[i], series[j])
          /\ IsNaN(series[k])

====
